---- MODULE Spec2Model ----
(***************************************************************************)
(* A model of the assistant bot of src/main.py: the validated fields, the  *)
(* Record and AddressBook operations, the command handlers and the         *)
(* interactive loop of main(), together with the calendar arithmetic that  *)
(* get_upcoming_birthdays relies on (datetime.date, modelled as the        *)
(* proleptic Gregorian calendar).                                          *)
(*                                                                         *)
(* Strings that the program inspects character by character (names, phone  *)
(* numbers, dates) are sequences of one-character strings.  Messages are   *)
(* TLA+ strings.  A Python dict is a sequence of records in insertion      *)
(* order, keyed by the record's name.                                      *)
(***************************************************************************)
EXTENDS Integers, Sequences, FiniteSets, TLC

VARIABLES
    book,      \* AddressBook.data: sequence of records, insertion order
    pc,        \* position of main(): "running", "closed" or "crashed"
    printed,   \* what the last command reported (value printed or raised)
    cmd,       \* the last command handled, as main() split it
    today,     \* date.today() as read by the last get_upcoming_birthdays
    saved,     \* the snapshot written by save_data (NotSaved before)
    date0,     \* input of the weekend sweep
    adj1,      \* adjust_for_weekend(date0)
    adj2,      \* adjust_for_weekend(adjust_for_weekend(date0))
    nextw      \* a target weekday and find_next_weekday(date0, weekday)

vars == <<book, pc, printed, cmd, today, saved, date0, adj1, adj2, nextw>>

(***************************************************************************)
(* Bounds of the model.                                                    *)
(***************************************************************************)
MaxPhones == 2        \* phones stored in the whole book by the session
MaxRecords == 3       \* records of the books that the birthday scan is run on
FirstYear == 2023     \* first year of the calendar sweeps
NumYears == 2         \* number of consecutive years swept for today

(***************************************************************************)
(* Program constants.                                                      *)
(***************************************************************************)
PhoneLen == 10        \* len(phone) != 10
Window == 7           \* 0 <= days <= 7
Saturday == 5         \* birthday.weekday() >= 5
Monday == 0           \* find_next_weekday(birthday, 0)
Week == 7             \* days_ahead += 7

(***************************************************************************)
(* Characters.                                                             *)
(***************************************************************************)
LowerSeq == <<"a","b","c","d","e","f","g","h","i","j","k","l","m",
              "n","o","p","q","r","s","t","u","v","w","x","y","z">>
UpperSeq == <<"A","B","C","D","E","F","G","H","I","J","K","L","M",
              "N","O","P","Q","R","S","T","U","V","W","X","Y","Z">>
AsciiDigitSeq == <<"0","1","2","3","4","5","6","7","8","9">>

Range(s) == {s[i] : i \in DOMAIN s}

LowerLetters == Range(LowerSeq)
UpperLetters == Range(UpperSeq)
AsciiLetters == LowerLetters \cup UpperLetters
AsciiDigits == Range(AsciiDigitSeq)
\* Characters of Unicode category Nd outside ASCII (ARABIC-INDIC DIGIT THREE),
\* written as a token: the pattern \d of a str pattern matches them.
UnicodeDigits == {"U+0663"}
DecimalDigits == AsciiDigits \cup UnicodeDigits

\* re.fullmatch(r"\d+", s)
FullMatchDigits(s) ==
    Len(s) >= 1 /\ \A i \in DOMAIN s : s[i] \in DecimalDigits

\* re.fullmatch(r"[a-zA-Z]+", s)
FullMatchLetters(s) ==
    Len(s) >= 1 /\ \A i \in DOMAIN s : s[i] \in AsciiLetters

\* str.casefold on one character (ASCII letters lowered, the rest unchanged)
CasefoldChar(c) ==
    IF c \in UpperLetters
    THEN LowerSeq[CHOOSE i \in DOMAIN UpperSeq : UpperSeq[i] = c]
    ELSE c

UpperChar(c) ==
    IF c \in LowerLetters
    THEN UpperSeq[CHOOSE i \in DOMAIN LowerSeq : LowerSeq[i] = c]
    ELSE c

Casefold(s) == [i \in DOMAIN s |-> CasefoldChar(s[i])]

\* str.title() of a single word: first cased character upper, the rest lower;
\* a letter that follows a non-letter starts a new word
Title(s) ==
    [i \in DOMAIN s |->
        IF i = 1 \/ s[i - 1] \notin AsciiLetters
        THEN UpperChar(s[i]) ELSE CasefoldChar(s[i])]

(***************************************************************************)
(* Values a handler returns or raises.                                     *)
(***************************************************************************)
StrVal(t) == [exc |-> "str", text |-> t, lines |-> <<>>]
ExcVal(type, t) == [exc |-> type, text |-> t, lines |-> <<>>]
NoneVal == [exc |-> "None", text |-> "None", lines |-> <<>>]
LinesVal(t, ls) == [exc |-> "str", text |-> t, lines |-> ls]

\* str(value) as print() shows it: str(KeyError(m)) is repr(m)
PrintText(v) == IF v.exc = "KeyError" THEN "'" \o v.text \o "'" ELSE v.text

Return(v) == [raised |-> FALSE, val |-> v]
Raise(type, t) == [raised |-> TRUE, val |-> ExcVal(type, t)]

(***************************************************************************)
(* The validating decorators.                                              *)
(***************************************************************************)
GetPhoneNoLength(phone) ==
    IF ~FullMatchDigits(phone)
    THEN Raise("NotNumberError", "Need to enter a phone number with digits only")
    ELSE Return(NoneVal)

\* get_phone: the checks made before the wrapped function runs
GetPhone(phone) ==
    IF Len(phone) # PhoneLen
    THEN Raise("LengthPhoneNumberError", "Incorrectly entered phone number")
    ELSE IF ~FullMatchDigits(phone)
    THEN Raise("NotNumberError", "Need to enter a phone number with digits only")
    ELSE Return(NoneVal)

\* check_name
CheckName(name) ==
    IF ~FullMatchLetters(name)
    THEN Raise("IncorectNameError", "Name must contain at least one letter")
    ELSE Return(NoneVal)

\* input_error: what the wrapper turns the wrapped function's outcome into
InputError(o) ==
    IF o.raised /\ o.val.exc = "ValueError"
    THEN Return(StrVal("Give me name, old phone and new phone please."))
    ELSE IF o.raised /\ o.val.exc = "KeyError"
    THEN Return(StrVal("There is no such contact!"))
    ELSE o

(***************************************************************************)
(* datetime.date: the proleptic Gregorian calendar.                        *)
(***************************************************************************)
NoDate == [y |-> 0, m |-> 0, d |-> 0]
MkDate(y, m, d) == [y |-> y, m |-> m, d |-> d]

MonthDays == <<31, 28, 31, 30, 31, 30, 31, 31, 30, 31, 30, 31>>
DaysBefore == <<0, 31, 59, 90, 120, 151, 181, 212, 243, 273, 304, 334>>

IsLeap(y) == y % 4 = 0 /\ (y % 100 # 0 \/ y % 400 = 0)
DaysInMonth(y, m) == IF m = 2 /\ IsLeap(y) THEN 29 ELSE MonthDays[m]
ValidYMD(y, m, d) ==
    y \in 1..9999 /\ m \in 1..12 /\ d >= 1 /\ d <= DaysInMonth(y, m)

\* date.toordinal()
Ordinal(dt) ==
    LET y1 == dt.y - 1 IN
    y1 * 365 + (y1 \div 4) - (y1 \div 100) + (y1 \div 400)
      + DaysBefore[dt.m] + (IF dt.m > 2 /\ IsLeap(dt.y) THEN 1 ELSE 0) + dt.d

\* date.weekday(): Monday is 0
Weekday(dt) == (Ordinal(dt) + 6) % 7

\* date + timedelta(days=n) for 0 <= n <= 28: at most one month boundary
AddDays(dt, n) ==
    LET last == DaysInMonth(dt.y, dt.m) IN
    IF dt.d + n <= last THEN MkDate(dt.y, dt.m, dt.d + n)
    ELSE IF dt.m < 12 THEN MkDate(dt.y, dt.m + 1, dt.d + n - last)
    ELSE MkDate(dt.y + 1, 1, dt.d + n - last)

\* date.replace(year=y): raises ValueError when the day does not exist in y
Replace(dt, y) ==
    IF ValidYMD(y, dt.m, dt.d)
    THEN [raised |-> FALSE, date |-> MkDate(y, dt.m, dt.d)]
    ELSE [raised |-> TRUE, date |-> NoDate]

DigitVal(c) == (CHOOSE i \in DOMAIN AsciiDigitSeq : AsciiDigitSeq[i] = c) - 1
DigitChar(n) == AsciiDigitSeq[n + 1]

\* int(s) for a string of one to four ASCII digits: the value of place i
PowerOfTen == <<1, 10, 100, 1000>>
NumAt(s, i) ==
    IF i <= Len(s) THEN DigitVal(s[i]) * PowerOfTen[Len(s) - i + 1] ELSE 0

Num(s) == NumAt(s, 1) + NumAt(s, 2) + NumAt(s, 3) + NumAt(s, 4)

AllAsciiDigits(s) == \A i \in DOMAIN s : s[i] \in AsciiDigits

NoSuchDate == [raised |-> TRUE, date |-> NoDate]

\* the date built from the three numbers: date(year, month, day)
DateOf(y, m, d) ==
    IF d \in 1..31 /\ m \in 1..12 /\ ValidYMD(y, m, d)
    THEN [raised |-> FALSE, date |-> MkDate(y, m, d)]
    ELSE NoSuchDate

\* the three fields: day and month of one or two digits, a year of four
ParseFields(fd, fm, fy) ==
    IF /\ Len(fd) \in 1..2 /\ Len(fm) \in 1..2 /\ Len(fy) = 4
       /\ AllAsciiDigits(fd) /\ AllAsciiDigits(fm) /\ AllAsciiDigits(fy)
    THEN DateOf(Num(fy), Num(fm), Num(fd))
    ELSE NoSuchDate

SplitAt(s, p1, p2) ==
    ParseFields(SubSeq(s, 1, p1 - 1), SubSeq(s, p1 + 1, p2 - 1),
                SubSeq(s, p2 + 1, Len(s)))

MinOf(S) == CHOOSE i \in S : \A j \in S : i <= j
MaxOf(S) == CHOOSE i \in S : \A j \in S : j <= i
SplitAtDots(s, dots) ==
    IF Cardinality(dots) # 2 THEN NoSuchDate
    ELSE SplitAt(s, MinOf(dots), MaxOf(dots))

\* datetime.strptime(value, "%d.%m.%Y").date(): day and month of one or two
\* digits, a year of exactly four, nothing before, between or after
Strptime(s) == SplitAtDots(s, {i \in DOMAIN s : s[i] = "."})

Pad2(n) == <<DigitChar(n \div 10), DigitChar(n % 10)>>
Pad4(n) == <<DigitChar(n \div 1000), DigitChar((n \div 100) % 10),
             DigitChar((n \div 10) % 10), DigitChar(n % 10)>>

\* date.strftime('%d.%m.%Y'), years of four digits
Strftime(dt) == Pad2(dt.d) \o <<".">> \o Pad2(dt.m) \o <<".">> \o Pad4(dt.y)

\* str(date): ISO format; str(None) for a record without birthday
IsoFormat(dt) ==
    IF dt = NoDate THEN <<"N", "o", "n", "e">>
    ELSE Pad4(dt.y) \o <<"-">> \o Pad2(dt.m) \o <<"-">> \o Pad2(dt.d)

(***************************************************************************)
(* The weekend policy.                                                     *)
(***************************************************************************)
\* find_next_weekday
FindNextWeekday(start_date, weekday) ==
    LET days_ahead == weekday - Weekday(start_date) IN
    AddDays(start_date, IF days_ahead <= 0 THEN days_ahead + Week ELSE days_ahead)

AdjustSundayOnly(birthday) ==
    IF Weekday(birthday) > Saturday
    THEN FindNextWeekday(birthday, Monday)
    ELSE birthday

\* adjust_for_weekend
AdjustForWeekend(birthday) ==
    IF Weekday(birthday) >= Saturday
    THEN FindNextWeekday(birthday, Monday)
    ELSE birthday

(***************************************************************************)
(* Record.                                                                 *)
(***************************************************************************)
NoRecord == [name |-> <<>>, phones |-> <<>>, birthday |-> NoDate]

\* Record.__init__ (Name.__init__ is wrapped by check_name)
RecordInit(name) ==
    LET c == CheckName(name) IN
    IF c.raised THEN [raised |-> TRUE, val |-> c.val, rec |-> NoRecord]
    ELSE [raised |-> FALSE, val |-> NoneVal,
          rec |-> [name |-> name, phones |-> <<>>, birthday |-> NoDate]]

\* Phone.__init__ (wrapped by get_phone)
PhoneInit(value) == GetPhone(value)

\* Record.add_phone (wrapped by get_phone, then Phone(...) validates again)
AddPhone(rec, phone_number) ==
    LET c == GetPhone(phone_number)
        p == PhoneInit(phone_number)
    IN
    IF c.raised THEN [raised |-> TRUE, val |-> c.val, rec |-> rec]
    ELSE IF p.raised THEN [raised |-> TRUE, val |-> p.val, rec |-> rec]
    ELSE [raised |-> FALSE, val |-> NoneVal,
          rec |-> [rec EXCEPT !.phones = Append(@, phone_number)]]

\* Record.remove_phone (wrapped by get_phone)
RemovePhone(rec, phone_number) ==
    LET c == GetPhone(phone_number) IN
    IF c.raised THEN [raised |-> TRUE, val |-> c.val, rec |-> rec]
    ELSE [raised |-> FALSE, val |-> NoneVal,
          rec |-> [rec EXCEPT
                     !.phones = SelectSeq(@, LAMBDA ph : phone_number # ph)]]

CheckPhoneIsFoundLast(rec, number) ==
    LET hits == {i \in DOMAIN rec.phones : rec.phones[i] = number} IN
    IF hits = {} THEN 0
    ELSE CHOOSE i \in hits : \A j \in hits : j <= i

\* Record.check_phone_is_found: the index of the first phone whose value is
\* number; 0 stands for the ValueError("Not found phone number")
CheckPhoneIsFound(rec, number) ==
    LET hits == {i \in DOMAIN rec.phones : rec.phones[i] = number} IN
    IF hits = {} THEN 0
    ELSE CHOOSE i \in hits : \A j \in hits : i <= j

UnpackError(need, got) ==
    IF got < need
    THEN "not enough values to unpack (expected " \o ToString(need)
           \o ", got " \o ToString(got) \o ")"
    ELSE "too many values to unpack (expected " \o ToString(need) \o ")"

UnpackAtLeastError(need, got) ==
    "not enough values to unpack (expected at least " \o ToString(need)
      \o ", got " \o ToString(got) \o ")"

\* Record.edit_phone
EditPhone(rec, args) ==
    IF Len(args) # 2
    THEN [raised |-> TRUE,
          val |-> ExcVal("ValueError", UnpackError(2, Len(args))),
          rec |-> rec]
    ELSE
      LET old_phone == args[1]
          new_phone == args[2]
          index == CheckPhoneIsFound(rec, old_phone)
          p == PhoneInit(new_phone)
      IN
      IF index = 0
      THEN [raised |-> TRUE,
            val |-> ExcVal("KeyError", "There is no such contact!"),
            rec |-> rec]
      ELSE IF p.raised THEN [raised |-> TRUE, val |-> p.val, rec |-> rec]
      ELSE [raised |-> FALSE,
            val |-> StrVal("Contact was changed successfully"),
            rec |-> [rec EXCEPT !.phones[index] = new_phone]]

\* Record.add_birthday, given what Birthday.__init__ made of the value
SetBirthday(rec, b) ==
    IF b.raised
    THEN [raised |-> TRUE,
          val |-> ExcVal("ValueError", "Invalid date format. Use DD.MM.YYYY"),
          rec |-> rec]
    ELSE [raised |-> FALSE,
          val |-> StrVal("Birthday was added successful!"),
          rec |-> [rec EXCEPT !.birthday = b.date]]

\* Record.add_birthday (Birthday.__init__ parses the value)
AddBirthdayRec(rec, birthday) == SetBirthday(rec, Strptime(birthday))

\* Record.__str__, as the pair (name, phones) that the line is built from
RecordLine(rec) == [name |-> rec.name, phones |-> rec.phones]

(***************************************************************************)
(* AddressBook.                                                            *)
(***************************************************************************)
Keys(data) == {data[i].name : i \in DOMAIN data}

\* AddressBook.find: the position of the record, 0 for None
Find(data, name) ==
    IF name \in Keys(data)
    THEN CHOOSE i \in DOMAIN data : data[i].name = name
    ELSE 0

\* AddressBook.add_record: a new key goes last, an old key keeps its place
AddRecord(data, contact) ==
    IF contact.name \in Keys(data)
    THEN [data EXCEPT ![Find(data, contact.name)] = contact]
    ELSE Append(data, contact)

DeleteIgnoreMissing(data, name) ==
    [raised |-> FALSE,
     val |-> LinesVal("Contact {name} was deleted!", <<name>>),
     data |-> SelectSeq(data, LAMBDA r : r.name # name)]

\* AddressBook.delete: dict.pop(name) raises KeyError(name) on a missing key
Delete(data, name) ==
    IF name \notin Keys(data)
    THEN [raised |-> TRUE, val |-> [exc |-> "KeyError", text |-> "{name}",
                                    lines |-> <<name>>],
          data |-> data]
    ELSE [raised |-> FALSE,
          val |-> LinesVal("Contact {name} was deleted!", <<name>>),
          data |-> SelectSeq(data, LAMBDA r : r.name # name)]

NoLines == [raised |-> FALSE, lines |-> <<>>]
ScanRaised == [raised |-> TRUE, lines |-> <<>>]

\* lines 161-163: the window test, then the weekend shift, then the line
EvalWindow(record, tday, birthday_this_year, days) ==
    IF 0 <= days /\ days <= Window
    THEN [raised |-> FALSE,
          lines |-> <<[name |-> record.name,
                       date |-> Strftime(AdjustForWeekend(birthday_this_year))]>>]
    ELSE NoLines

\* line 159: the occurrence of next year, when replace() did not raise
EvalNextYear(record, tday, next) ==
    IF next.raised THEN ScanRaised
    ELSE EvalWindow(record, tday, next.date, Ordinal(next.date) - Ordinal(tday))

EvalThisYearTodayPassed(record, tday, this) ==
    IF this.raised THEN ScanRaised
    ELSE IF Ordinal(this.date) <= Ordinal(tday)
    THEN EvalNextYear(record, tday, Replace(record.birthday, tday.y + 1))
    ELSE EvalWindow(record, tday, this.date, Ordinal(this.date) - Ordinal(tday))

\* lines 157-158: the occurrence of this year, when replace() did not raise
EvalThisYear(record, tday, this) ==
    IF this.raised THEN ScanRaised
    ELSE IF Ordinal(this.date) < Ordinal(tday)
    THEN EvalNextYear(record, tday, Replace(record.birthday, tday.y + 1))
    ELSE EvalWindow(record, tday, this.date, Ordinal(this.date) - Ordinal(tday))

\* The body of the loop of get_upcoming_birthdays for one record
EvalRecord(record, tday) ==
    IF record.birthday = NoDate THEN NoLines
    ELSE EvalThisYear(record, tday, Replace(record.birthday, tday.y))

GetUpcomingBirthdaysScanAll(data, tday) ==
    LET upto[i \in 0..Len(data)] ==
          IF i = 0 THEN [raised |-> FALSE, lines |-> <<>>]
          ELSE IF upto[i - 1].raised THEN upto[i - 1]
          ELSE [raised |-> EvalRecord(data[i], tday).raised,
                lines |-> upto[i - 1].lines \o EvalRecord(data[i], tday).lines]
    IN upto[Len(data)]

\* AddressBook.get_upcoming_birthdays, run to exhaustion: the return at the
\* end of the loop body ends the scan after the first record
GetUpcomingBirthdays(data, tday) ==
    IF Len(data) = 0 THEN NoLines
    ELSE EvalRecord(data[1], tday)

(***************************************************************************)
(* The command handlers.  Each yields the book it leaves and its outcome.  *)
(***************************************************************************)
\* A handler as main sees it: its body's outcome passed through input_error
Handled(b) == [book |-> b.book, out |-> InputError(b.out)]

\* The record method's outcome r on the record at position found: the record
\* is changed in place when the method returned, and the handler returns the
\* message or the exception caught by except Exception
Stored(data, found, r) ==
    IF r.raised THEN [book |-> data, out |-> Return(r.val)]
    ELSE [book |-> [data EXCEPT ![found] = r.rec], out |-> Return(r.val)]

\* return message, unless the method before it raised
Returning(r, message) ==
    IF r.raised THEN r ELSE [r EXCEPT !.val = StrVal(message)]

\* lines 180-182: if phone: record.add_phone(phone); return message
AddContactPhone(data1, found, phone, message) ==
    IF phone = <<>> THEN [book |-> data1, out |-> Return(StrVal(message))]
    ELSE Stored(data1, found, Returning(AddPhone(data1[found], phone), message))

\* lines 177-179: a new Record(name), when Name accepted it, goes into the book
AddContactNew(data, phone, made, message) ==
    IF made.raised THEN [book |-> data, out |-> Return(made.val)]
    ELSE AddContactPhone(AddRecord(data, made.rec), Len(data) + 1, phone, message)

AddContactFoundSwapped(data, name, phone, found) ==
    IF found = 0
    THEN AddContactNew(data, phone, RecordInit(name), "Contact updated.")
    ELSE AddContactPhone(data, found, phone, "Contact added.")

\* lines 174-176: record = book.find(name) decides the message
AddContactFound(data, name, phone, found) ==
    IF found = 0
    THEN AddContactNew(data, phone, RecordInit(name), "Contact added.")
    ELSE AddContactPhone(data, found, phone, "Contact updated.")

\* add_contact, the body under try ... except Exception as e: return e
AddContactBody(args, data) ==
    IF Len(args) < 2
    THEN [book |-> data,
          out |-> Return(ExcVal("ValueError", UnpackAtLeastError(2, Len(args))))]
    ELSE AddContactFound(data, args[1], args[2], Find(data, args[1]))

\* add_contact, wrapped by input_error
AddContact(args, data) == Handled(AddContactBody(args, data))

NoneHasNo(method) ==
    ExcVal("AttributeError",
           "'NoneType' object has no attribute '" \o method \o "'")

\* lines 191-193: record = book.find(name); record.edit_phone(phones)
EditContactFound(data, phones, found) ==
    IF found = 0
    THEN [book |-> data, out |-> Return(NoneHasNo("edit_phone"))]
    ELSE Stored(data, found, EditPhone(data[found], phones))

\* edit_contact, the body under try ... except Exception as e: return e
EditContactBody(args, data) ==
    IF Len(args) < 1
    THEN [book |-> data,
          out |-> Return(ExcVal("ValueError", UnpackAtLeastError(1, Len(args))))]
    ELSE EditContactFound(data, Tail(args), Find(data, args[1]))

\* edit_contact, wrapped by input_error
EditContact(args, data) == Handled(EditContactBody(args, data))

\* lines 202-204: record = book.find(name); record.add_birthday(birthday)
AddBirthdayFound(data, birthday, found) ==
    IF found = 0
    THEN [book |-> data, out |-> Return(NoneHasNo("add_birthday"))]
    ELSE Stored(data, found, AddBirthdayRec(data[found], birthday))

\* add_birthday, the body under try ... except Exception as e: return e
AddBirthdayBody(args, data) ==
    IF Len(args) # 2
    THEN [book |-> data,
          out |-> Return(ExcVal("ValueError", UnpackError(2, Len(args))))]
    ELSE AddBirthdayFound(data, args[2], Find(data, args[1]))

\* add_birthday, wrapped by input_error
AddBirthday(args, data) == Handled(AddBirthdayBody(args, data))

ShowBirthdayFound(name, data, found) ==
    IF found # 0
    THEN Return(LinesVal("{name.title()} - {birthday}",
             <<[name |-> Title(name),
                date |-> IsoFormat(data[found].birthday)]>>))
    ELSE Return(NoneVal)

\* show_birthday, wrapped by input_error
ShowBirthday(name, data) ==
    Handled([book |-> data,
             out |-> ShowBirthdayFound(name, data, Find(data, name))])

\* birthdays, wrapped by input_error: the lines printed while the generator
\* runs; the wrapper's return value (None, or the message it makes of the
\* generator's ValueError) is not printed by main
BirthdaysPrinted(data, g) ==
    [book |-> data, out |-> Return(LinesVal("", g.lines)),
     ret |-> InputError(IF g.raised
                        THEN Raise("ValueError", "day is out of range for month")
                        ELSE Return(NoneVal))]

Birthdays(data, tday) == BirthdaysPrinted(data, GetUpcomingBirthdays(data, tday))

(***************************************************************************)
(* main(): one pass of the loop on a command already stripped and split.   *)
(***************************************************************************)
NotSaved == [written |-> FALSE, book |-> <<>>]

Running(data, v, sv) ==
    [book |-> data, printed |-> v, pc |-> "running", saved |-> sv]

Printed(h, sv) ==
    [book |-> h.book, printed |-> h.out.val,
     pc |-> IF h.out.raised THEN "crashed" ELSE "running", saved |-> sv]

\* print(book.delete(name)): nothing catches what delete raises
Deleted(d, sv) ==
    [book |-> d.data, printed |-> d.val,
     pc |-> IF d.raised THEN "crashed" ELSE "running", saved |-> sv]

\* The match statement of main
Main(tokens, data, tday, sv) ==
    LET word == tokens[1]
        info == Tail(tokens)
        n == Len(tokens)
    IN
    CASE n = 1 /\ word = "hello" ->
           Running(data, StrVal("How can I help you?"), sv)
      [] n = 1 /\ word = "all" ->
           Running(data,
               LinesVal("", [i \in DOMAIN data |-> RecordLine(data[i])]), sv)
      [] word = "add" -> Printed(AddContact(info, data), sv)
      [] word = "change" -> Printed(EditContact(info, data), sv)
      [] word = "add-birthday" -> Printed(AddBirthday(info, data), sv)
      [] n = 2 /\ word = "show-birthday" ->
           Printed(ShowBirthday(tokens[2], data), sv)
      [] n = 1 /\ word = "birthdays" -> Printed(Birthdays(data, tday), sv)
      [] n = 2 /\ word = "phone" ->
           Running(data,
               IF Find(data, tokens[2]) = 0 THEN NoneVal
               ELSE LinesVal("", <<RecordLine(data[Find(data, tokens[2])])>>),
               sv)
      [] n = 2 /\ word = "delete" ->
           Deleted(Delete(data, tokens[2]), sv)
      [] n = 1 /\ word \in {"close", "exit"} ->
           [book |-> data, printed |-> StrVal("Good bye!"), pc |-> "closed",
            saved |-> [written |-> TRUE, book |-> data]]
      [] OTHER -> Running(data, StrVal("Invalid command."), sv)

(***************************************************************************)
(* Inputs of the session.                                                  *)
(***************************************************************************)
Rep(c, n) == [i \in 1..n |-> c]

NameAl == <<"a", "l">>
NameBo == <<"B", "o">>          \* reaches the handlers casefolded
NameBad == <<"x", "1">>
Empty == <<>>                   \* the token between two adjacent spaces

Phone1 == Rep("1", PhoneLen)
Phone2 == Rep("2", PhoneLen - 1) \o <<"U+0663">>
PhoneShort == Rep("1", PhoneLen - 1)
PhoneAlpha == Rep("1", PhoneLen - 1) \o <<"x">>
PhoneLongAlpha == Rep("1", PhoneLen) \o <<"x">>

Date1 == <<"1","5",".","0","6",".","2","0","2","4">>
Date2 == <<"2","0",".","6",".","2","0","2","4">>
DateSlashes == <<"0","5","/","0","6","/","2","0","2","4">>
DateNoSuchDay == <<"3","1",".","0","2",".","2","0","2","4">>

DateLeapDay == <<"2","9",".","0","2",".","2","0","2","4">>

NameTokens == {NameAl, NameBo, NameBad}
ValidNames == {NameAl, NameBo}
PhoneTokens == {Phone1, Phone2, PhoneShort, PhoneAlpha, PhoneLongAlpha}
DateTokens == {Date1, DateSlashes, DateNoSuchDay}

\* input().strip() leaves no empty token at the end of a command
AddInfos ==
    {<<>>, <<NameAl>>}
      \cup {<<n, p>> : n \in ValidNames, p \in PhoneTokens}
      \cup {<<NameBad, Phone1>>, <<NameBad, PhoneShort>>, <<Empty, Phone1>>}
      \cup {<<n, Empty, Phone1>> : n \in NameTokens}
      \cup {<<NameAl, Phone1, Phone2>>}

ChangeInfos ==
    {<<>>, <<NameAl>>, <<NameAl, Phone1>>, <<NameBad, Phone1, Phone2>>,
     <<NameAl, PhoneShort, Phone1>>, <<NameAl, Phone1, Phone2, Phone1>>}
      \cup {<<n, o, p>> : n \in ValidNames, o \in {Phone1, Phone2},
                          p \in {Phone1, Phone2, PhoneShort, PhoneAlpha}}

BirthdayInfos ==
    {<<>>, <<NameAl>>, <<NameBad, Date1>>, <<NameAl, Date1, Date1>>}
      \cup {<<n, d>> : n \in ValidNames, d \in DateTokens}

SessionDays == {MkDate(2024, 6, 10), MkDate(2024, 6, 21)}

\* Commands that no case of the match statement takes
InvalidLines ==
    {<<"">>, <<"help">>, <<"delete">>, <<"birthdays", NameAl>>,
     <<"delete", NameAl, NameBo>>}

Welcome == StrVal("Welcome to the assistant bot!")

(***************************************************************************)
(* The session: main() from load_data on a missing file.                   *)
(***************************************************************************)
Init ==
    /\ book = <<>>
    /\ pc = "running"
    /\ printed = Welcome
    /\ cmd = <<"start">>
    /\ today = NoDate
    /\ saved = NotSaved
    /\ date0 = NoDate /\ adj1 = NoDate /\ adj2 = NoDate
    /\ nextw = [weekday |-> 0, date |-> NoDate]

\* input(...).strip().casefold().split(" ") on a line given by its words
Command(word, rawInfo) ==
    <<word>> \o [i \in DOMAIN rawInfo |-> Casefold(rawInfo[i])]

AddLines == {Command("add", info) : info \in AddInfos}
ChangeLines == {Command("change", info) : info \in ChangeInfos}
AddBirthdayLines == {Command("add-birthday", info) : info \in BirthdayInfos}
ShowBirthdayLines == {Command("show-birthday", <<n>>) : n \in NameTokens}
PhoneLines == {Command("phone", <<n>>) : n \in NameTokens}
DeleteLines == {Command("delete", <<n>>) : n \in NameTokens}
OtherLines == {Command(Head(line), Tail(line)) : line \in InvalidLines}

\* One pass of the loop: dispatch and print
Step(tokens, tday) ==
    \E o \in {Main(tokens, book, tday, saved)} :
        /\ book' = o.book
        /\ printed' = o.printed
        /\ pc' = o.pc
        /\ saved' = o.saved
        /\ cmd' = tokens
        /\ today' = tday
        /\ UNCHANGED <<date0, adj1, adj2, nextw>>

\* The number of phones stored in the whole book
TotalPhones(data) ==
    Cardinality(UNION {{<<i, k>> : k \in DOMAIN data[i].phones} : i \in DOMAIN data})

WithinBound(data) == TotalPhones(data) <= MaxPhones

\* Each command below is one pass of the while loop, taken while main() runs
HelloCmd ==
    /\ pc = "running"
    /\ Step(<<"hello">>, NoDate)

AllCmd ==
    /\ pc = "running"
    /\ Step(<<"all">>, NoDate)

AddCmd ==
    /\ pc = "running"
    /\ \E line \in AddLines : Step(line, NoDate) /\ WithinBound(book')

ChangeCmd ==
    /\ pc = "running"
    /\ \E line \in ChangeLines : Step(line, NoDate)

AddBirthdayCmd ==
    /\ pc = "running"
    /\ \E line \in AddBirthdayLines : Step(line, NoDate)

ShowBirthdayCmd ==
    /\ pc = "running"
    /\ \E line \in ShowBirthdayLines : Step(line, NoDate)

BirthdaysCmd ==
    /\ pc = "running"
    /\ \E t \in SessionDays : Step(<<"birthdays">>, t)

PhoneCmd ==
    /\ pc = "running"
    /\ \E line \in PhoneLines : Step(line, NoDate)

DeleteCmd ==
    /\ pc = "running"
    /\ \E line \in DeleteLines : Step(line, NoDate)

CloseCmd ==
    /\ pc = "running"
    /\ \E w \in {"close", "exit"} : Step(<<w>>, NoDate)

InvalidCmd ==
    /\ pc = "running"
    /\ \E line \in OtherLines : Step(line, NoDate)

\* Record.remove_phone, which no command reaches: a direct call on a record
\* of the book; its exception goes to the caller
RemovePhoneCall ==
    \E i \in DOMAIN book, p \in PhoneTokens :
      \E r \in {RemovePhone(book[i], p)} :
        /\ pc = "running"
        /\ book' = [book EXCEPT ![i] = r.rec]
        /\ printed' = r.val
        /\ cmd' = <<"remove_phone", book[i].name, p>>
        /\ today' = NoDate
        /\ UNCHANGED <<pc, saved, date0, adj1, adj2, nextw>>

Next ==
    \/ HelloCmd
    \/ AllCmd
    \/ AddCmd
    \/ ChangeCmd
    \/ AddBirthdayCmd
    \/ ShowBirthdayCmd
    \/ BirthdaysCmd
    \/ PhoneCmd
    \/ DeleteCmd
    \/ CloseCmd
    \/ InvalidCmd
    \/ RemovePhoneCall

Spec == Init /\ [][Next]_vars

(***************************************************************************)
(* The calendar sweeps: the pure date functions on every day of NumYears   *)
(* years, and get_upcoming_birthdays on every birthday against every day.  *)
(***************************************************************************)
DatesOfYear(y) ==
    {MkDate(y, m, d) : m \in 1..12, d \in 1..31} \cap
    {dt \in [y : {y}, m : 1..12, d : 1..31] : ValidYMD(dt.y, dt.m, dt.d)}

SweepDays == UNION {DatesOfYear(y) : y \in FirstYear..(FirstYear + NumYears - 1)}

\* Birthdays: every day of the last leap year before the sweep
BirthYear == CHOOSE y \in (FirstYear - 8)..(FirstYear - 1) :
                 IsLeap(y) /\ \A z \in (y + 1)..(FirstYear - 1) : ~IsLeap(z)

InitWeekend ==
    /\ book = <<>>
    /\ pc = "weekend"
    /\ printed = Welcome
    /\ cmd = <<"start">>
    /\ today = NoDate
    /\ saved = NotSaved
    /\ date0 \in SweepDays
    /\ adj1 = NoDate /\ adj2 = NoDate
    /\ nextw = [weekday |-> 0, date |-> NoDate]

ApplyAdjust ==
    /\ pc = "weekend" /\ adj1 = NoDate /\ nextw.date = NoDate
    /\ adj1' = AdjustForWeekend(date0)
    /\ UNCHANGED <<book, pc, printed, cmd, today, saved, date0, adj2, nextw>>

ApplyAdjustAgain ==
    /\ pc = "weekend" /\ adj1 # NoDate /\ adj2 = NoDate
    /\ adj2' = AdjustForWeekend(adj1)
    /\ UNCHANGED <<book, pc, printed, cmd, today, saved, date0, adj1, nextw>>

ApplyFindNextWeekday ==
    /\ pc = "weekend" /\ adj1 = NoDate /\ nextw.date = NoDate
    /\ \E w \in 0..6 :
         nextw' = [weekday |-> w, date |-> FindNextWeekday(date0, w)]
    /\ UNCHANGED <<book, pc, printed, cmd, today, saved, date0, adj1, adj2>>

NextWeekend == ApplyAdjust \/ ApplyAdjustAgain \/ ApplyFindNextWeekday

SpecWeekend == InitWeekend /\ [][NextWeekend]_vars

\* Books of up to MaxRecords records for the scan: the birthdays are parsed
\* from the tokens, NoDate is a record without birthday
ScanNames == <<NameAl, Casefold(NameBo), <<"c", "y">>>> \o
             [i \in 1..(MaxRecords - 3) |-> Rep("z", i)]
ScanBirthdays ==
    {NoDate} \cup {Strptime(t).date : t \in {Date1, Date2, DateLeapDay}}
ScanBooks ==
    UNION {{[i \in 1..n |-> [name |-> ScanNames[i], phones |-> <<>>,
                              birthday |-> bs[i]]] :
              bs \in [1..n -> ScanBirthdays]} : n \in 0..MaxRecords}
ScanDays == SessionDays \cup {MkDate(2024, 6, 14), MkDate(2023, 2, 25)}

InitCalendar ==
    /\ \/ /\ \E b \in DatesOfYear(BirthYear) :
               book = <<[name |-> NameAl, phones |-> <<>>, birthday |-> b]>>
          /\ today \in SweepDays
       \/ /\ book \in ScanBooks
          /\ today \in ScanDays
    /\ pc = "running"
    /\ printed = Welcome
    /\ cmd = <<"start">>
    /\ saved = NotSaved
    /\ date0 = NoDate /\ adj1 = NoDate /\ adj2 = NoDate
    /\ nextw = [weekday |-> 0, date |-> NoDate]

\* The birthdays command on the day the sweep fixed
BirthdaysOnDay ==
    /\ pc = "running"
    /\ cmd = <<"start">>
    /\ Step(<<"birthdays">>, today)

NextCalendar == BirthdaysOnDay

SpecCalendar == InitCalendar /\ [][NextCalendar]_vars

(***************************************************************************)
(* Properties.                                                             *)
(***************************************************************************)
IsValidPhone(p) == Len(p) = 10 /\ \A i \in DOMAIN p : p[i] \in DecimalDigits
IsValidName(n) == Len(n) >= 1 /\ \A i \in DOMAIN n : n[i] \in AsciiLetters
FirstIndexOf(ph, v) ==
    CHOOSE k \in DOMAIN ph : ph[k] = v /\ \A j \in 1..(k - 1) : ph[j] # v

\* C1: for the record that get_upcoming_birthdays evaluates (the first one, when
\* it has a birthday), with occ the birthday's occurrence in today's year, or in
\* the next year when that one is strictly before today: the record is reported
\* exactly when occ exists and 0 <= occ - today <= 7 days; the date reported is
\* occ itself on Monday..Friday and the first Monday after occ on a Saturday or
\* Sunday, so at most 9 days after today.
C1_WindowThenWeekendShift ==
    (cmd[1] = "birthdays" /\ book # <<>> /\ book[1].birthday # NoDate) =>
      LET b == book[1].birthday
          thisOk == ValidYMD(today.y, b.m, b.d)
          this == MkDate(today.y, b.m, b.d)
          useNext == thisOk /\ Ordinal(this) < Ordinal(today)
          occOk == thisOk /\ (useNext => ValidYMD(today.y + 1, b.m, b.d))
          occ == IF useNext THEN MkDate(today.y + 1, b.m, b.d) ELSE this
          reported == printed.lines # <<>>
      IN
      /\ reported <=>
           (occOk /\ 0 <= Ordinal(occ) - Ordinal(today)
                  /\ Ordinal(occ) - Ordinal(today) <= 7)
      /\ reported =>
           LET r == Strptime(printed.lines[1].date) IN
           /\ Len(printed.lines) = 1
           /\ printed.lines[1].name = book[1].name
           /\ ~r.raised
           /\ Weekday(occ) < 5 => r.date = occ
           /\ Weekday(occ) >= 5 =>
                /\ Weekday(r.date) = 0
                /\ Ordinal(r.date) - Ordinal(occ) \in 1..6
           /\ Ordinal(r.date) - Ordinal(today) <= 9

\* The scenario of the specification: today Monday 10.06.2024, a birthday on
\* 15 June (a Saturday in 2024) is reported as Monday 17.06.2024
C1_Witness ==
    /\ cmd[1] = "birthdays"
    /\ today = MkDate(2024, 6, 10)
    /\ Len(book) = 1 /\ book[1].birthday.m = 6 /\ book[1].birthday.d = 15
    /\ printed.lines =
         <<[name |-> NameAl,
            date |-> <<"1","7",".","0","6",".","2","0","2","4">>]>>

\* C2: get_upcoming_birthdays yields at most one entry, and an entry it yields
\* is for the first record of the book in insertion order.
C2_OnlyFirstRecord ==
    cmd[1] = "birthdays" =>
      /\ Len(printed.lines) <= 1
      /\ printed.lines # <<>> =>
           (book # <<>> /\ printed.lines[1].name = book[1].name)

\* The first record has no birthday, the second one has its birthday within
\* the window, and nothing is reported
C2_Witness ==
    /\ cmd[1] = "birthdays"
    /\ Len(book) >= 2
    /\ book[1].birthday = NoDate
    /\ today = MkDate(2024, 6, 10)
    /\ book[2].birthday = MkDate(2024, 6, 15)
    /\ printed.lines = <<>>

\* C3: delete(name) on a missing key raises the not-found error and leaves the
\* book unchanged; on a key it removes exactly that record, keeps every other
\* record, returns the confirmation, and find(name) is absent afterwards.
C3_Delete ==
    [][(cmd'[1] = "delete" /\ Len(cmd') = 2) =>
           LET name == cmd'[2] IN
           IF name \notin Keys(book)
           THEN /\ book' = book
                /\ printed'.exc = "KeyError"
                /\ pc' = "crashed"
           ELSE /\ Len(book') = Len(book) - 1
                /\ \A i \in DOMAIN book :
                     book[i].name # name => \E j \in DOMAIN book' : book'[j] = book[i]
                /\ \A j \in DOMAIN book' :
                     book'[j].name # name /\ \E i \in DOMAIN book : book[i] = book'[j]
                /\ Find(book', name) = 0
                /\ printed' = LinesVal("Contact {name} was deleted!", <<name>>)
                /\ pc' = "running"]_vars

\* A record was deleted and another one is still in the book
C3_Witness ==
    /\ cmd[1] = "delete"
    /\ printed.text = "Contact {name} was deleted!"
    /\ Len(book) >= 1
    /\ \A i \in DOMAIN book : <<book[i].name>> # printed.lines
    /\ \E i \in DOMAIN book : book[i].phones # <<>>

\* C4: edit_phone([old, new]) on a record: when some phone equals old and new
\* is valid, the first entry equal to old becomes new, every other entry and
\* the number of phones stay, and the success message is returned; when no
\* phone equals old, the lookup failure is raised and the phones are unchanged.
C4_EditPhone ==
    [][(cmd'[1] = "change" /\ Len(cmd') = 4 /\ cmd'[2] \in Keys(book)) =>
           LET i == Find(book, cmd'[2])
               old == cmd'[3]
               new == cmd'[4]
               ph == book[i].phones
           IN
           /\ ((\E k \in DOMAIN ph : ph[k] = old) /\ IsValidPhone(new)) =>
                /\ printed' = StrVal("Contact was changed successfully")
                /\ Len(book'[i].phones) = Len(ph)
                /\ book'[i].phones[FirstIndexOf(ph, old)] = new
                /\ \A k \in DOMAIN ph :
                     k # FirstIndexOf(ph, old) => book'[i].phones[k] = ph[k]
                /\ book' = [book EXCEPT ![i].phones = book'[i].phones]
           /\ (\A k \in DOMAIN ph : ph[k] # old) =>
                /\ printed'.exc = "KeyError"
                /\ book' = book]_vars

\* An edit succeeded on a record that holds several phones
C4_Witness ==
    /\ cmd[1] = "change"
    /\ printed = StrVal("Contact was changed successfully")
    /\ \E i \in DOMAIN book : Len(book[i].phones) >= 2

\* C5: add_contact with a valid name and a valid phone returns "Contact added."
\* exactly when the name was not in the book and "Contact updated." exactly
\* when it was, and appends the phone to the end of that contact's phones.
C5_AddContact ==
    [][(cmd'[1] = "add" /\ Len(cmd') >= 3
          /\ IsValidName(cmd'[2]) /\ IsValidPhone(cmd'[3])) =>
           LET name == cmd'[2]
               phone == cmd'[3]
               i == Find(book, name)
           IN
           IF name \notin Keys(book)
           THEN /\ printed' = StrVal("Contact added.")
                /\ book' = Append(book, [name |-> name, phones |-> <<phone>>,
                                         birthday |-> NoDate])
           ELSE /\ printed' = StrVal("Contact updated.")
                /\ book' = [book EXCEPT ![i].phones = Append(@, phone)]]_vars

\* The same name was added twice with two phones: one record, two phones
C5_Witness ==
    /\ cmd[1] = "add"
    /\ printed = StrVal("Contact updated.")
    /\ Len(book) = 1
    /\ book[1].phones = <<Phone1, Phone2>>

\* C6: no command raises out of the loop: the loop is running after every
\* command other than close and exit, and the session ends only through close
\* or exit, with the book saved.
C6_LoopSurvives ==
    /\ pc \in {"running", "closed"}
    /\ pc = "closed" =>
         (cmd[1] \in {"close", "exit"}
            /\ saved = [written |-> TRUE, book |-> book])

\* C7: a change or add-birthday command naming a contact that is not in the
\* book, and a change command naming an old phone the contact does not have,
\* print "There is no such contact!" and leave the book unchanged.
C7_NoSuchContact ==
    [][/\ (cmd'[1] = "change" /\ Len(cmd') = 4
             /\ (cmd'[2] \notin Keys(book)
                   \/ \A k \in DOMAIN book[Find(book, cmd'[2])].phones :
                        book[Find(book, cmd'[2])].phones[k] # cmd'[3])) =>
            (PrintText(printed') = "There is no such contact!" /\ book' = book)
       /\ (cmd'[1] = "add-birthday" /\ Len(cmd') = 3
             /\ cmd'[2] \notin Keys(book)) =>
            (PrintText(printed') = "There is no such contact!" /\ book' = book)
      ]_vars

\* C8: adjust_for_weekend never returns a Saturday or Sunday, returns a
\* Monday..Friday date unchanged and otherwise the first Monday strictly after
\* it, and applying it twice equals applying it once; find_next_weekday
\* returns a date of the target weekday strictly after its start, within a week.
C8_AdjustForWeekend ==
    /\ adj1 # NoDate =>
         /\ Weekday(adj1) \notin {5, 6}
         /\ Weekday(date0) < 5 => adj1 = date0
         /\ Weekday(date0) >= 5 =>
              /\ Weekday(adj1) = 0
              /\ Ordinal(adj1) - Ordinal(date0) \in 1..6
    /\ adj2 # NoDate => adj2 = adj1
    /\ nextw.date # NoDate =>
         /\ nextw.date # date0
         /\ Weekday(nextw.date) = nextw.weekday
         /\ Ordinal(nextw.date) - Ordinal(date0) \in 1..7

\* A Saturday was moved two days on, and the second application kept it
C8_Witness ==
    /\ Weekday(date0) = 5
    /\ adj1 = AddDays(date0, 2)
    /\ adj2 = adj1

\* C9: every phone stored in every record of the book is exactly 10 characters
\* long and made of decimal digits only; a phone given to add_contact with a
\* valid name is rejected for its length first and for its characters second.
C9_StoredPhonesValid ==
    /\ \A i \in DOMAIN book :
         \A k \in DOMAIN book[i].phones : IsValidPhone(book[i].phones[k])
    /\ (cmd[1] = "add" /\ Len(cmd) >= 3 /\ IsValidName(cmd[2]) /\ cmd[3] # <<>>) =>
         /\ Len(cmd[3]) # 10 => printed.exc = "LengthPhoneNumberError"
         /\ (Len(cmd[3]) = 10 /\ ~IsValidPhone(cmd[3])) =>
              printed.exc = "NotNumberError"

\* A value was just rejected while the book holds phones
C9_Witness ==
    /\ cmd = <<"add", NameAl, PhoneLongAlpha>>
    /\ printed.exc = "LengthPhoneNumberError"
    /\ \E i \in DOMAIN book : Len(book[i].phones) >= 2

\* C10: an add_contact that returns an error instead of "Contact added." or
\* "Contact updated." leaves the book as it was.
C10_FailedAddKeepsBook ==
    [][(cmd'[1] = "add"
          /\ printed' \notin {StrVal("Contact added."), StrVal("Contact updated.")})
           => book' = book]_vars

====
